---- MODULE Spec2Model ----
(***************************************************************************)
(* Model of the WAV encoder audioBufferToWav of                            *)
(* src/components/tools/index.tsx (lines 65-112).                          *)
(*                                                                         *)
(* A sample is a rational number <<n, d>> with d > 0 a power of two (the   *)
(* values a Float32Array can hold are dyadic rationals), or the string     *)
(* "NaN" for the value JavaScript computes from an out-of-range read.      *)
(* The encoder is modelled step by step: the header writes, the channel    *)
(* fetch, the while loop test and the body of the inner for loop.          *)
(*                                                                         *)
(* The module also models the two components that call the encoder:        *)
(* AudioTrimmer (lines 886-975: loadAudio, handleTrim and the Start and    *)
(* End fields, with JavaScript's double arithmetic computed exactly) and   *)
(* AudioConverter (lines 837-884: handleFileChange and handleConvert).     *)
(* Handlers are synchronous; the asynchronous functions yield at their     *)
(* awaits, where other handlers and continuations may run.                 *)
(***************************************************************************)
EXTENDS Integers, Sequences, FiniteSets, TLC

\* ---------------------------------------------------------------- bounds
MaxChannels == 2
MaxFrames == 3
MaxCells == 4
\* Calls of loadAudio, or of handleConvert, waiting at the same time.
MaxPending == 2

\* -------------------------------------------------------- input domains
\* Sample values an AudioBuffer channel may hold (n/d, d a power of two).
\* 1.5, 1, 0.5, 0, -0.5, -(0.75 + 2^-16), -1, -1.5
SampleValues ==
    { <<3, 2>>, <<1, 1>>, <<1, 2>>, <<0, 1>>,
      <<-1, 2>>, <<-49153, 65536>>, <<-1, 1>>, <<-3, 2>> }

SampleRates == { 8000, 44100 }

\* All sequences over S of length exactly n.
SeqsOfLen(S, n) == [1..n -> S]

\* The AudioBuffers the decoder can hand over: numberOfChannels >= 1,
\* every channel of the same length, sampleRate > 0.
AudioBuffersOver(S) ==
    UNION { UNION { [ numberOfChannels : {nc},
                       length : {nf},
                       sampleRate : SampleRates,
                       channelData : SeqsOfLen(SeqsOfLen(S, nf), nc) ]
                     : nf \in { f \in 0..MaxFrames : f * nc <= MaxCells } }
            : nc \in 1..MaxChannels }

AudioBuffers == AudioBuffersOver(SampleValues)

\* The same shapes and rates filled from two sample values only, one in
\* range and one out of range: the control flow of the encoder does not
\* read the sample values.
TermSampleValues == { <<1, 2>>, <<-3, 2>> }

TermBuffers == AudioBuffersOver(TermSampleValues)

\* ------------------------------------------------------------ arithmetic
Pow2(k) == 2 ^ k

\* Truncation toward zero of the rational n/d (d > 0).
TruncDiv(n, d) == IF n >= 0 THEN n \div d ELSE -((-n) \div d)

\* x | 0 on an integer-valued x: ToInt32 wraps modulo 2^32 into
\* [-2^31, 2^31).  The two's-complement wrap is computed on the 16-bit
\* halves so that no intermediate value exceeds 31 bits.
ToInt32(x) ==
    LET lo == x % Pow2(16)
        hi == (x \div Pow2(16)) % Pow2(16)
    IN  IF hi >= Pow2(15) THEN (hi - Pow2(16)) * Pow2(16) + lo
        ELSE hi * Pow2(16) + lo

\* Rational comparison a < b, a = <<an, ad>>, b = <<bn, bd>>, ad, bd > 0.
RatLt(a, b) == a[1] * b[2] < b[1] * a[2]

\* Variant of line 104 without the clamp.
ClampSampleNone(s) == s

\* Math.max(-1, Math.min(1, s)); NaN propagates.
ClampSample(s) ==
    IF s = "NaN" THEN "NaN"
    ELSE LET lo == IF RatLt(<<1, 1>>, s) THEN <<1, 1>> ELSE s
         IN  IF RatLt(lo, <<-1, 1>>) THEN <<-1, 1>> ELSE lo

\* Round-half-away-from-zero of the rational n/d (d > 0).
RoundDiv(n, d) ==
    LET a == IF n >= 0 THEN n ELSE -n
        q == a \div d + (IF 2 * (a % d) >= d THEN 1 ELSE 0)
    IN  IF n >= 0 THEN q ELSE -q

\* Variant of line 105 that rounds to nearest instead of truncating.
ScaleSampleRound(s) ==
    IF s = "NaN" THEN 0
    ELSE IF s[2] + 2 * s[1] < 0
         THEN ToInt32(RoundDiv(s[1] * 32768, s[2]))
         ELSE ToInt32(RoundDiv(s[1] * 32767, s[2]))

\* Variant of line 105 that scales every sample by 32768.
ScaleSampleAll32768(s) ==
    IF s = "NaN" THEN 0
    ELSE ToInt32(TruncDiv(s[1] * 32768, s[2]))

\* Variant of line 105 with the two factors exchanged.
ScaleSampleSwapped(s) ==
    IF s = "NaN" THEN 0
    ELSE IF s[2] + 2 * s[1] < 0
         THEN ToInt32(TruncDiv(s[1] * 32767, s[2]))
         ELSE ToInt32(TruncDiv(s[1] * 32768, s[2]))

\* (0.5 + sample < 0 ? sample * 32768 : sample * 32767) | 0
\* 0.5 + n/d < 0  iff  d + 2n < 0.
ScaleSample(s) ==
    IF s = "NaN" THEN 0
    ELSE IF s[2] + 2 * s[1] < 0
         THEN ToInt32(TruncDiv(s[1] * 32768, s[2]))
         ELSE ToInt32(TruncDiv(s[1] * 32767, s[2]))

\* Variant of line 104 that reads channel 0 whatever i is.
ReadSampleFirstChannel(chans, ch, off) ==
    IF 1 \in DOMAIN chans /\ off + 1 \in DOMAIN chans[1]
    THEN chans[1][off + 1]
    ELSE "NaN"

\* channels[i][offset]: an out-of-range index reads undefined, which
\* Math.min turns into NaN.  ch is 0-based in the code, 1-based here.
ReadSample(chans, ch, off) ==
    IF ch + 1 \in DOMAIN chans /\ off + 1 \in DOMAIN chans[ch + 1]
    THEN chans[ch + 1][off + 1]
    ELSE "NaN"

\* ------------------------------------------------------------- DataView
\* Little-endian bytes of the low `nbytes` bytes of the integer x
\* (two's complement for a negative x: \div rounds toward minus infinity).
LEBytes(x, nbytes) ==
    [ k \in 1..nbytes |-> (x \div Pow2(8 * (k - 1))) % 256 ]

\* Write `nbytes` little-endian bytes of x at byte position p (0-based).
PutBytes(bytes, p, x, nbytes) ==
    [ k \in 1..Len(bytes) |->
        IF k - 1 >= p /\ k - 1 < p + nbytes
        THEN LEBytes(x, nbytes)[k - p]
        ELSE bytes[k] ]

\* A DataView write is in range iff p + nbytes <= byteLength; otherwise
\* it raises RangeError.
InRange(bytes, p, nbytes) == p >= 0 /\ p + nbytes <= Len(bytes)

\* setUint16 / setUint32 helpers of the encoder: write at pos, advance pos.
\* st = [view, pos, ok].
SetUint(st, data, nbytes) ==
    IF st.ok /\ InRange(st.view, st.pos, nbytes)
    THEN [ view |-> PutBytes(st.view, st.pos, data, nbytes),
           pos |-> st.pos + nbytes, ok |-> TRUE ]
    ELSE [ st EXCEPT !.ok = FALSE ]

setUint16(st, data) == SetUint(st, data, 2)

setUint32(st, data) == SetUint(st, data, 4)

\* Variants of line 67 with a slip: the header bytes forgotten, the channel
\* count forgotten.
WavLenNoHeader(length, nch) == length * nch * 2

WavLenMono(length, nch) == length * 2 + 44

\* Variant of line 67 with room for one frame more than the buffer has.
WavLenExtraFrame(length, nch) == (length + 1) * nch * 2 + 44

\* Line 67: len = buffer.length * numOfChan * 2 + 44.
WavLen(length, nch) == length * nch * 2 + 44

\* ------------------------------------------------- JavaScript numbers
\* The times of the trimmer are IEEE-754 doubles.  A double is a record
\* [sgn, hi, lo, exp] standing for sgn * (hi * 2^27 + lo) * 2^exp, where
\* the 53-bit significand hi * 2^27 + lo is 0 or has its top bit set;
\* sgn = 0 marks NaN.  Significands are handled as little-endian sequences of bits, so
\* that no intermediate integer exceeds 31 bits; every operation rounds to
\* nearest, ties to even.  (Infinities, subnormals and the sign of zero
\* are outside the values the trimmer meets here.)
NaN == [ sgn |-> 0, hi |-> 0, lo |-> 0, exp |-> 0 ]

BitsOfInt(n, w) == [ k \in 1..w |-> (n \div Pow2(k - 1)) % 2 ]

RECURSIVE IntOfBits(_)
IntOfBits(bits) ==
    IF bits = << >> THEN 0
    ELSE bits[1] + 2 * IntOfBits(Tail(bits))

\* Number of significant bits: index of the highest 1, 0 for zero.
BitLen(bits) ==
    IF \A k \in 1..Len(bits) : bits[k] = 0 THEN 0
    ELSE CHOOSE k \in 1..Len(bits) :
             /\ bits[k] = 1
             /\ \A j \in (k + 1)..Len(bits) : bits[j] = 0

Zeros(n) == [ k \in 1..n |-> 0 ]

\* Long arithmetic works on little-endian sequences of 9-bit limbs.
Limb == Pow2(9)

LimbsOfBits(bits) ==
    [ j \in 1..((Len(bits) + 8) \div 9) |->
        IntOfBits(SubSeq(bits, 9 * (j - 1) + 1,
                         IF 9 * j <= Len(bits) THEN 9 * j ELSE Len(bits))) ]

BitsOfLimbs(limbs) ==
    [ k \in 1..(9 * Len(limbs)) |->
        (limbs[(k - 1) \div 9 + 1] \div Pow2((k - 1) % 9)) % 2 ]

\* limbs + 1 (one limb longer when every limb was full).
RECURSIVE IncLimbs(_)
IncLimbs(limbs) ==
    IF limbs = << >> THEN << 1 >>
    ELSE IF limbs[1] + 1 < Limb THEN << limbs[1] + 1 >> \o Tail(limbs)
    ELSE << 0 >> \o IncLimbs(Tail(limbs))

\* bits + 1.
IncBits(bits) ==
    LET r == BitsOfLimbs(IncLimbs(LimbsOfBits(bits)))
    IN  SubSeq(r, 1, IF BitLen(r) > Len(bits) THEN BitLen(r) ELSE Len(bits))

\* limbs * k + carry for an integer 0 < k < 2^19.
RECURSIVE MulLimbs(_, _, _)
MulLimbs(limbs, k, carry) ==
    IF limbs = << >>
    THEN IF carry = 0 THEN << >>
         ELSE << carry % Limb >> \o MulLimbs(limbs, k, carry \div Limb)
    ELSE << (limbs[1] * k + carry) % Limb >>
             \o MulLimbs(Tail(limbs), k, (limbs[1] * k + carry) \div Limb)

MulBits(bits, k) == BitsOfLimbs(MulLimbs(LimbsOfBits(bits), k, 0))

\* Long division of limbs by an integer 0 < k < 2^19, from the top limb
\* down: [q |-> quotient limbs, rem |-> remainder].
RECURSIVE DivLimbs(_, _, _)
DivLimbs(limbs, k, rem) ==
    IF limbs = << >> THEN [ q |-> << >>, rem |-> rem ]
    ELSE LET top == Limb * rem + limbs[Len(limbs)]
         IN  CHOOSE out \in
                 { [ q |-> Append(rest.q, top \div k), rem |-> rest.rem ] :
                     rest \in { DivLimbs(SubSeq(limbs, 1, Len(limbs) - 1), k,
                                         top % k) } }
                 : TRUE

DivBits(bits, k) ==
    CHOOSE out \in
        { [ q |-> BitsOfLimbs(d.q), rem |-> d.rem ] :
            d \in { DivLimbs(LimbsOfBits(bits), k, 0) } }
        : TRUE

\* a - b on limb sequences of the same length, a >= b.
RECURSIVE SubLimbs(_, _, _)
SubLimbs(a, b, borrow) ==
    IF a = << >> THEN << >>
    ELSE LET d == a[1] - b[1] - borrow
         IN  << d % Limb >> \o SubLimbs(Tail(a), Tail(b), IF d < 0 THEN 1 ELSE 0)

SubBits(a, b) == BitsOfLimbs(SubLimbs(LimbsOfBits(a), LimbsOfBits(b), 0))

Zero == [ sgn |-> 1, hi |-> 0, lo |-> 0, exp |-> 0 ]

IsZero(x) == x # NaN /\ x.hi = 0 /\ x.lo = 0

\* The 53 significand bits of a double.
SigBits(x) == BitsOfInt(x.lo, 27) \o BitsOfInt(x.hi, 26)

Pack(sgn, bits53, exp) ==
    [ sgn |-> sgn,
      hi |-> IntOfBits(SubSeq(bits53, 28, 53)),
      lo |-> IntOfBits(SubSeq(bits53, 1, 27)),
      exp |-> exp ]

\* The double nearest to sgn * bits * 2^exp; sticky tells that the exact
\* value lies strictly above bits * 2^exp (and below the next integer
\* multiple of 2^exp).
RoundToDouble(sgn, bits, exp, sticky) ==
    LET n == BitLen(bits)
    IN  IF n = 0 THEN Zero
        ELSE IF n <= 53
        THEN Pack(sgn, Zeros(53 - n) \o SubSeq(bits, 1, n), exp - (53 - n))
        ELSE LET g == n - 53
                 kept == SubSeq(bits, g + 1, n)
                 below == sticky \/ \E k \in 1..(g - 1) : bits[k] = 1
                 up == bits[g] = 1 /\ (below \/ kept[1] = 1)
                 m == IF up THEN IncBits(kept) ELSE kept
             IN  IF Len(m) = 54
                 THEN Pack(sgn, Zeros(52) \o << 1 >>, exp + g + 1)
                 ELSE Pack(sgn, m, exp + g)

\* The double of an integer |n| < 2^30.
DblOfInt(n) ==
    RoundToDouble(IF n < 0 THEN -1 ELSE 1,
                  BitsOfInt(IF n < 0 THEN -n ELSE n, 30), 0, FALSE)

\* The double nearest to n / k, for integers 0 <= n < 2^30, 0 < k < 2^19:
\* what n / k evaluates to, and what parseFloat gives for the decimal
\* numeral n / 10^j.
DblOfRatio(n, k) ==
    CHOOSE out \in
        { RoundToDouble(1, d.q, -80, d.rem > 0) :
            d \in { DivBits(Zeros(80) \o BitsOfInt(n, 30), k) } }
        : TRUE

\* x * k for a double x and an integer 0 < k < 2^19.
DblTimesInt(x, k) ==
    IF x = NaN THEN NaN
    ELSE RoundToDouble(x.sgn, MulBits(SigBits(x), k), x.exp, FALSE)

\* x < y and x <= y of JavaScript: false when either is NaN.
MagLt(x, y) ==
    IF IsZero(y) THEN FALSE
    ELSE IF IsZero(x) THEN TRUE
    ELSE IF x.exp # y.exp THEN x.exp < y.exp
    ELSE IF x.hi # y.hi THEN x.hi < y.hi
    ELSE x.lo < y.lo

DblLt(x, y) ==
    IF x = NaN \/ y = NaN THEN FALSE
    ELSE IF IsZero(x) /\ IsZero(y) THEN FALSE
    ELSE IF x.sgn # y.sgn \/ IsZero(x) \/ IsZero(y)
         THEN (IF IsZero(x) THEN 0 ELSE x.sgn) < (IF IsZero(y) THEN 0 ELSE y.sgn)
    ELSE IF x.sgn = 1 THEN MagLt(x, y) ELSE MagLt(y, x)

DblEq(x, y) ==
    /\ x # NaN
    /\ y # NaN
    /\ ~DblLt(x, y)
    /\ ~DblLt(y, x)

DblLe(x, y) == DblLt(x, y) \/ DblEq(x, y)

\* Math.max and Math.min: NaN when either argument is NaN.
MathMax(x, y) ==
    IF x = NaN \/ y = NaN THEN NaN
    ELSE IF DblLt(x, y) THEN y ELSE x

MathMin(x, y) ==
    IF x = NaN \/ y = NaN THEN NaN
    ELSE IF DblLt(y, x) THEN y ELSE x

\* An integer-valued number or NaN, as Math.floor returns it.
IntNum(n) == [ nan |-> FALSE, val |-> n ]

NaNNum == [ nan |-> TRUE, val |-> 0 ]

\* Math.floor (|x| < 2^30).
MathFloor(x) ==
    IF x = NaN THEN NaNNum
    ELSE IF IsZero(x) THEN IntNum(0)
    ELSE LET bits == SigBits(x)
             whole == IF x.exp >= 0 THEN IntOfBits(bits) * Pow2(x.exp)
                      ELSE IF -x.exp >= 53 THEN 0
                      ELSE IntOfBits(SubSeq(bits, 1 - x.exp, 53))
             exact == \/ x.exp >= 0
                      \/ /\ -x.exp < 53
                         /\ \A k \in 1..(-x.exp) : bits[k] = 0
         IN  IF x.sgn = 1 THEN IntNum(whole)
             ELSE IF exact THEN IntNum(-whole) ELSE IntNum(-whole - 1)

\* a - b on such numbers.
NumMinus(a, b) ==
    IF a.nan \/ b.nan THEN NaNNum ELSE IntNum(a.val - b.val)

\* y - x for doubles 0 <= x <= y whose exponents are less than 31 apart.
DblMinus(y, x) ==
    IF x = NaN \/ y = NaN THEN NaN
    ELSE IF IsZero(x) THEN y
    ELSE LET shift == y.exp - x.exp
             ybits == IF shift >= 0 THEN Zeros(shift) \o SigBits(y)
                      ELSE SigBits(y) \o Zeros(-shift)
             xbits == IF shift >= 0 THEN SigBits(x) \o Zeros(shift)
                      ELSE Zeros(-shift) \o SigBits(x)
             low == IF shift >= 0 THEN x.exp ELSE y.exp
         IN  RoundToDouble(1, SubBits(ybits, xbits), low, FALSE)

\* ----------------------------------------------------------------- state
VARIABLES
    buffer,     \* the AudioBuffer argument of audioBufferToWav
    pc,         \* position in audioBufferToWav
    numOfChan,  \* let numOfChan
    len,        \* let len
    view,       \* bytes of wavBuffer seen through the DataView
    channels,   \* let channels
    i,          \* let i
    sample,     \* let sample (0 stands for the undefined initial value)
    offset,     \* let offset
    pos         \* let pos

encVars == << buffer, pc, numOfChan, len, view, channels, i, sample, offset, pos >>

\* State of the AudioTrimmer component (lines 886-948).
VARIABLES
    heap,        \* the Float32Array storages alive, by storage id
    audioBuffer, \* useState audioBuffer (NoBuffer stands for null)
    startTime,   \* useState startTime
    endTime,     \* useState endTime
    output,      \* useState output: the bytes behind the object URL,
                 \* << >> for null
    status,      \* useState status
    startSample, \* const startSample of handleTrim
    endSample,   \* const endSample of handleTrim
    newBuffer,   \* const newBuffer of handleTrim (NoBuffer before it exists)
    tpc,         \* position in handleTrim
    file,        \* useState file of the trimmer (NoFile stands for null)
    loads,       \* the calls of loadAudio waiting at an await
    memo         \* history: the first and the latest finished trim

trimVars == << heap, audioBuffer, startTime, endTime, output, status,
               startSample, endSample, newBuffer, tpc, file, loads, memo >>

\* State of the AudioConverter component (lines 837-865).
VARIABLES
    cfile,       \* useState file of the converter (NoFile stands for null)
    coutput,     \* useState output: the bytes behind the object URL,
                 \* << >> for null
    cstatus,     \* useState status
    convs        \* the calls of handleConvert waiting at an await or
                 \* inside audioBufferToWav

convVars == << cfile, coutput, cstatus, convs >>

vars == << buffer, pc, numOfChan, len, view, channels, i, sample, offset, pos,
           heap, audioBuffer, startTime, endTime, output, status,
           startSample, endSample, newBuffer, tpc, file, loads, memo,
           cfile, coutput, cstatus, convs >>

\* A file of the file input: its name, whether decodeAudioData accepts
\* it, and the <<sampleRate, length, numberOfChannels>> it decodes to.
NoFile == [ name |-> "", decodes |-> FALSE, shape |-> <<0, 0, 0>> ]

\* The AudioConverter before anything is selected (lines 838-840).
ConverterUnused ==
    /\ cfile = NoFile
    /\ coutput = << >>
    /\ cstatus = ""
    /\ convs = {}

\* An AudioBuffer of the trimmer names its channel storages by id.
NoBuffer ==
    [ numberOfChannels |-> 0, length |-> 0, sampleRate |-> 0,
      channelData |-> << >> ]

NoMemo == [ set |-> FALSE ]

\* The AudioTrimmer as it is while the encoder is looked at on its own:
\* nothing loaded (lines 887-892; endTime starts at 10).
TrimmerUnused ==
    /\ heap = << >>
    /\ audioBuffer = NoBuffer
    /\ startTime = Zero
    /\ endTime = DblOfInt(10)
    /\ output = << >>
    /\ status = ""
    /\ startSample = NaNNum
    /\ endSample = NaNNum
    /\ newBuffer = NoBuffer
    /\ tpc = "idle"
    /\ file = NoFile
    /\ loads = {}
    /\ memo = NoMemo

\* State at the call of audioBufferToWav(buffer).
InitLocals ==
    /\ pc = "start"
    /\ numOfChan = 0
    /\ len = 0
    /\ view = << >>
    /\ channels = << >>
    /\ i = 0
    /\ sample = 0
    /\ offset = 0
    /\ pos = 0

Init ==
    /\ buffer \in AudioBuffers
    /\ InitLocals
    /\ TrimmerUnused
    /\ ConverterUnused

InitTerm ==
    /\ buffer \in TermBuffers
    /\ InitLocals
    /\ TrimmerUnused
    /\ ConverterUnused

\* Variant of line 71 in which offset lives outside the function and
\* keeps the value the previous call left.
StartOffsetStale == offset

\* Line 71: offset = 0.
StartOffset == 0

\* Lines 66-72: the declarations.
EncDeclare ==
    /\ pc = "start"
    /\ numOfChan' = buffer.numberOfChannels
    /\ len' = WavLen(buffer.length, buffer.numberOfChannels)
    /\ view' = [ k \in 1..WavLen(buffer.length, buffer.numberOfChannels) |-> 0 ]
    /\ channels' = << >>
    /\ offset' = StartOffset
    /\ pos' = 0
    /\ pc' = "header"
    /\ UNCHANGED << buffer, i, sample >>
    /\ UNCHANGED trimVars
    /\ UNCHANGED convVars

\* Variant of lines 75-86 writing AudioFormat with setUint32.
HeaderFieldsWideFormat(nch, rate, length) ==
    << <<4, 1179011410>>, <<4, length - 8>>, <<4, 1163280727>>,
       <<4, 544501094>>, <<4, 16>>, <<4, 1>>, <<2, nch>>, <<4, rate>>,
       <<4, rate * 2 * nch>>, <<2, nch * 2>>, <<2, 16>>, <<4, 1635017060>> >>

\* Variant of lines 75-86 with the byte rate of a single channel.
HeaderFieldsMonoRate(nch, rate, length) ==
    << <<4, 1179011410>>, <<4, length - 8>>, <<4, 1163280727>>,
       <<4, 544501094>>, <<4, 16>>, <<2, 1>>, <<2, nch>>, <<4, rate>>,
       <<4, rate * 2>>, <<2, nch * 2>>, <<2, 16>>, <<4, 1635017060>> >>

\* Lines 75-86: the twelve header writes before the data chunk length.
HeaderFields(nch, rate, length) ==
    << <<4, 1179011410>>,          \* 0x46464952 "RIFF"
       <<4, length - 8>>,          \* file length - 8
       <<4, 1163280727>>,          \* 0x45564157 "WAVE"
       <<4, 544501094>>,           \* 0x20746d66 "fmt "
       <<4, 16>>,                  \* length = 16
       <<2, 1>>,                   \* PCM
       <<2, nch>>,
       <<4, rate>>,
       <<4, rate * 2 * nch>>,      \* avg. bytes/sec
       <<2, nch * 2>>,             \* block-align
       <<2, 16>>,                  \* 16-bit
       <<4, 1635017060>> >>        \* 0x61746164 "data"

\* The writes of `fields` from the k-th on, one after the other, each
\* starting from the view and pos the one before left (nx is bound to the
\* value of the k-th write before the rest is applied to it).
RECURSIVE WriteFields(_, _, _)
WriteFields(st, fields, k) ==
    IF k > Len(fields) THEN st
    ELSE CHOOSE out \in { WriteFields(nx, fields, k + 1) :
                            nx \in { SetUint(st, fields[k][2], fields[k][1]) } }
                : TRUE

\* Variant of line 87 that forgets the 4 bytes of the length field itself.
WriteHeaderLongData(bytes, p, nch, rate, length) ==
    CHOOSE out \in
        { setUint32(st12, length - st12.pos) :
            st12 \in { WriteFields([view |-> bytes, pos |-> p, ok |-> TRUE],
                                   HeaderFields(nch, rate, length), 1) } }
        : TRUE

\* Lines 75-87: the header, the last write using the pos reached so far.
WriteHeader(bytes, p, nch, rate, length) ==
    CHOOSE out \in
        { setUint32(st12, length - st12.pos - 4) :
            st12 \in { WriteFields([view |-> bytes, pos |-> p, ok |-> TRUE],
                                   HeaderFields(nch, rate, length), 1) } }
        : TRUE

EncHeader ==
    /\ pc = "header"
    /\ \E st \in { WriteHeader(view, pos, numOfChan, buffer.sampleRate, len) } :
           /\ view' = st.view
           /\ pos' = st.pos
           /\ pc' = IF st.ok THEN "channels" ELSE "threw"
    /\ UNCHANGED << buffer, numOfChan, len, channels, i, sample, offset >>
    /\ UNCHANGED trimVars
    /\ UNCHANGED convVars

\* Lines 99-100: channels.push(buffer.getChannelData(i)) for every channel.
EncChannels ==
    /\ pc = "channels"
    /\ channels' = buffer.channelData
    /\ i' = buffer.numberOfChannels
    /\ pc' = "while"
    /\ UNCHANGED << buffer, numOfChan, len, view, sample, offset, pos >>
    /\ UNCHANGED trimVars
    /\ UNCHANGED convVars

\* Line 102: while (pos < len); line 103: i = 0; line 111: return.
EncWhile ==
    /\ pc = "while"
    /\ IF pos < len
       THEN /\ i' = 0
            /\ pc' = "for"
       ELSE /\ i' = i
            /\ pc' = "done"
    /\ UNCHANGED << buffer, numOfChan, len, view, channels, sample, offset, pos >>
    /\ UNCHANGED trimVars
    /\ UNCHANGED convVars

\* Lines 103-109: one test of the inner for loop and, if it holds, its
\* body; when it fails, offset++ and back to the while test.
EncFor ==
    /\ pc = "for"
    /\ IF i < numOfChan
       THEN LET smp == ScaleSample(ClampSample(ReadSample(channels, i, offset)))
            IN  /\ sample' = smp
                /\ offset' = offset
                /\ IF InRange(view, pos, 2)
                   THEN /\ view' = PutBytes(view, pos, smp, 2)
                        /\ pos' = pos + 2
                        /\ i' = i + 1
                        /\ pc' = "for"
                   ELSE /\ pc' = "threw"
                        /\ UNCHANGED << view, pos, i >>
       ELSE /\ offset' = offset + 1
            /\ pc' = "while"
            /\ UNCHANGED << view, pos, i, sample >>
    /\ UNCHANGED << buffer, numOfChan, len, channels >>
    /\ UNCHANGED trimVars
    /\ UNCHANGED convVars

Next ==
    \/ EncDeclare
    \/ EncHeader
    \/ EncChannels
    \/ EncWhile
    \/ EncFor

Spec == Init /\ [][Next]_vars

\* audioBufferToWav is synchronous code: once called it runs to its end.
FairSpec == InitTerm /\ [][Next]_vars /\ WF_vars(Next)

\* ------------------------------------------------ pairs of samples
\* Samples on both sides of -0.5, where line 105 changes the factor, on
\* both sides of 0, and beyond the range (all of them Float32 values).
QuantSamples ==
    { <<-3, 2>>, <<-1, 1>>, <<-49153, 65536>>, <<-32769, 65536>>, <<-1, 2>>,
      <<-32767, 65536>>, <<-1, 65536>>, <<0, 1>>, <<1, 65536>>, <<1, 2>>,
      <<1, 1>>, <<3, 2>> }

\* One stereo frame for every pair of them.
QuantBuffers ==
    [ numberOfChannels : {2}, length : {1}, sampleRate : {8000},
      channelData : SeqsOfLen(SeqsOfLen(QuantSamples, 1), 2) ]

InitQuant ==
    /\ buffer \in QuantBuffers
    /\ InitLocals
    /\ TrimmerUnused
    /\ ConverterUnused

QuantSpec == InitQuant /\ [][Next]_vars

\* ------------------------------------------- objects posing as buffers
\* audioBufferToWav reads numberOfChannels, length, sampleRate and
\* getChannelData of whatever it is handed.  Two-channel objects whose
\* second channel is shorter or longer than `length` says:
MismatchedBuffers ==
    UNION { [ numberOfChannels : {2},
              length : {n[1]},
              sampleRate : {8000},
              channelData : SeqsOfLen(TermSampleValues, n[1])
                            \X SeqsOfLen(TermSampleValues, n[2]) ]
            : n \in { <<1, 0>>, <<2, 1>>, <<1, 2>> } }

\* Objects with a sample rate of 0 or below.
NonPositiveRateBuffers ==
    { [ b EXCEPT !.sampleRate = r ] :
        b \in { t \in TermBuffers : t.length = 1 /\ t.sampleRate = 8000 },
        r \in { 0, -8000 } }

InvalidBuffers == MismatchedBuffers \cup NonPositiveRateBuffers

InitInvalid ==
    /\ buffer \in InvalidBuffers
    /\ InitLocals
    /\ TrimmerUnused
    /\ ConverterUnused

InvalidSpec == InitInvalid /\ [][Next]_vars

\* -------------------------------------------------------- AudioTrimmer
\* The decoded files at hand, as <<sampleRate, length, numberOfChannels>>.
TrimShapes == { <<44100, 15, 1>>, <<8000, 3, 2>> }

\* The sample a decoded file holds in channel c, frame f (0-based): the
\* frames of a channel all differ, and so do the channels of a frame.
DecodedSample(c, f) == << ((3 * f + 5 * c) % 17) - 8, 8 >>

DecodedChannels(shape) ==
    [ c \in 1..shape[3] |-> [ f \in 1..shape[2] |-> DecodedSample(c - 1, f - 1) ] ]

\* The AudioBuffer decodeAudioData yields, its channels stored at the
\* storage ids 1..numberOfChannels.
DecodedBuffer(shape) ==
    [ numberOfChannels |-> shape[3], length |-> shape[2],
      sampleRate |-> shape[1],
      channelData |-> [ c \in 1..shape[3] |-> c ] ]

\* What the user can have in the Start and End fields: parseFloat of ""
\* (NaN), -1, 0, 0.00001, 0.00002, 0.0001, 0.0002, 0.0003, 3, 5, 10, and
\* the durations the load itself puts there.
TrimTimes ==
    { NaN, DblOfInt(-1), Zero,
      DblOfRatio(1, 100000), DblOfRatio(2, 100000),
      DblOfRatio(1, 10000), DblOfRatio(2, 10000), DblOfRatio(3, 10000),
      DblOfRatio(3, 8000), DblOfRatio(15, 44100),
      DblOfInt(3), DblOfInt(5), DblOfInt(10) }

\* AudioBuffer.duration: length / sampleRate.
Duration(ab) == DblOfRatio(ab.length, ab.sampleRate)

\* The buffer with its samples in place of the storage ids: what a reader
\* of the buffer sees.
Contents(h, ab) ==
    [ numberOfChannels |-> ab.numberOfChannels, length |-> ab.length,
      sampleRate |-> ab.sampleRate,
      channelData |-> [ c \in 1..Len(ab.channelData) |-> h[ab.channelData[c]] ] ]

\* A Float32Array is a window [from, to) on a storage.
\* getChannelData(i):
ChannelView(ab, ch) ==
    [ store |-> ab.channelData[ch + 1], from |-> 0, to |-> ab.length ]

\* A relative index of subarray: negative counts from the end, and the
\* result is clamped to [0, n].
ClampIndex(k, n) ==
    IF k < 0 THEN (IF n + k < 0 THEN 0 ELSE n + k)
    ELSE IF k > n THEN n ELSE k

\* TypedArray.prototype.subarray(b, e): a window on the same storage.
Subarray(v, b, e) ==
    LET n == v.to - v.from
        b2 == ClampIndex(b, n)
        e2 == ClampIndex(e, n)
    IN  [ store |-> v.store, from |-> v.from + b2,
          to |-> v.from + (IF e2 < b2 THEN b2 ELSE e2) ]

ViewElems(h, v) == SubSeq(h[v.store], v.from + 1, v.to)

\* TypedArray.prototype.set(src) on dst: copies the elements of src to the
\* start of dst; RangeError when src is longer than dst.
TypedArraySet(h, dst, src) ==
    IF src.to - src.from > dst.to - dst.from
    THEN [ ok |-> FALSE, heap |-> h ]
    ELSE [ ok |-> TRUE,
           heap |-> [ h EXCEPT ![dst.store] =
                        [ k \in 1..Len(@) |->
                            IF k - 1 >= dst.from
                               /\ k - 1 < dst.from + (src.to - src.from)
                            THEN ViewElems(h, src)[k - dst.from]
                            ELSE @[k] ] ] ]

\* Variant of createBuffer that hands out the storages of the loaded
\* buffer instead of fresh ones.
CreateBufferAliased(h, nch, length, rate) ==
    IF length.nan \/ length.val < 1 \/ nch < 1
    THEN [ ok |-> FALSE, heap |-> h, buffer |-> NoBuffer ]
    ELSE [ ok |-> TRUE,
           heap |-> h,
           buffer |-> [ numberOfChannels |-> nch, length |-> length.val,
                        sampleRate |-> rate,
                        channelData |-> [ c \in 1..nch |-> c ] ] ]

\* BaseAudioContext.createBuffer(numberOfChannels, length, sampleRate):
\* the length is converted to an unsigned long (NaN becomes 0, a negative
\* number a count beyond any supported length) and NotSupportedError is
\* raised unless it is at least 1; otherwise fresh storages of zeros.
CreateBuffer(h, nch, length, rate) ==
    IF length.nan \/ length.val < 1 \/ nch < 1
    THEN [ ok |-> FALSE, heap |-> h, buffer |-> NoBuffer ]
    ELSE [ ok |-> TRUE,
           heap |-> h \o [ c \in 1..nch |-> [ k \in 1..length.val |-> <<0, 1>> ] ],
           buffer |-> [ numberOfChannels |-> nch, length |-> length.val,
                        sampleRate |-> rate,
                        channelData |-> [ c \in 1..nch |-> Len(h) + c ] ] ]

\* Variant of line 920 without the clamp at 0.
EffectiveStartNoClamp(st) == st

\* Line 920: const start = Math.max(0, startTime).
EffectiveStart(st) == MathMax(Zero, st)

\* Line 921: const end = Math.min(endTime, audioBuffer.duration).
EffectiveEnd(en, ab) == MathMin(en, Duration(ab))

\* Variant of line 923 with < for <=.
RangeRejectedStrict(start, end) == DblLt(end, start)

\* Line 923: if (end <= start).
RangeRejected(start, end) == DblLe(end, start)

\* Variant of lines 928-929 that takes the frame after the one the time
\* falls in.
SampleIndexNext(t, rate) ==
    IF MathFloor(DblTimesInt(t, rate)).nan THEN NaNNum
    ELSE IntNum(MathFloor(DblTimesInt(t, rate)).val + 1)

\* Lines 928-929: Math.floor(t * audioBuffer.sampleRate).
SampleIndex(t, rate) == MathFloor(DblTimesInt(t, rate))

\* Variant of lines 939-941 with source and destination exchanged.
CopyChannelReversed(h, src, dst, ch, from, to) ==
    TypedArraySet(h, ChannelView(src, ch),
                  Subarray(ChannelView(dst, ch), from, to))

\* Lines 939-941: the body of the copy loop for channel ch.
CopyChannel(h, src, dst, ch, from, to) ==
    TypedArraySet(h, ChannelView(dst, ch),
                  Subarray(ChannelView(src, ch), from, to))

\* Variant of lines 938-942 that leaves the loop after the first channel.
CopyChannelsFirstOnly(h, src, dst, ch, from, to) ==
    CopyChannel(h, src, dst, 0, from, to)

\* Lines 938-942: the copy loop from channel ch on.
RECURSIVE CopyChannels(_, _, _, _, _, _)
CopyChannels(h, src, dst, ch, from, to) ==
    IF ch >= src.numberOfChannels THEN [ ok |-> TRUE, heap |-> h ]
    ELSE CHOOSE out \in
             { IF r.ok THEN CopyChannels(r.heap, src, dst, ch + 1, from, to)
               ELSE r :
                 r \in { CopyChannel(h, src, dst, ch, from, to) } }
             : TRUE

Outcome(kind, h, nb, from, to) ==
    [ kind |-> kind, heap |-> h, buffer |-> nb,
      startSample |-> from, endSample |-> to ]

\* Lines 920-942, the extraction of handleTrim: "rejected" for the range
\* error, "threw" when createBuffer or set raises, "ok" with the new
\* buffer and the heap holding it.
Extract(h, ab, st, en) ==
    LET start == EffectiveStart(st)
        end == EffectiveEnd(en, ab)
        from == SampleIndex(start, ab.sampleRate)
        to == SampleIndex(end, ab.sampleRate)
    IN  IF RangeRejected(start, end)
        THEN Outcome("rejected", h, NoBuffer, NaNNum, NaNNum)
        ELSE CHOOSE out \in
                 { IF ~cb.ok THEN Outcome("threw", h, NoBuffer, from, to)
                   ELSE CHOOSE o2 \in
                       { Outcome(IF cp.ok THEN "ok" ELSE "threw", cp.heap,
                                 cb.buffer, from, to) :
                           cp \in { CopyChannels(cb.heap, ab, cb.buffer, 0,
                                                 from.val, to.val) } }
                       : TRUE :
                     cb \in { CreateBuffer(h, ab.numberOfChannels,
                                           NumMinus(to, from), ab.sampleRate) } }
                 : TRUE

StatusRangeError == "Error: End time must be after start time."

\* Variant of lines 923-926 that withdraws the output as loadAudio does.
RejectedOutputCleared == << >>

\* Lines 923-926: the rejection sets the status and returns; the output
\* stays what it was.
RejectedOutput == output

\* The storages still referenced when handleTrim starts: those of
\* audioBuffer (the buffer of an earlier trim is garbage).
LiveHeap == SubSeq(heap, 1, audioBuffer.numberOfChannels)

\* The request and outcome of a finished trim as the history keeps them.
TrimRecord(st, res) ==
    [ source |-> Contents(LiveHeap, audioBuffer),
      startTime |-> startTime, endTime |-> endTime,
      status |-> st, result |-> res ]

\* The history after a trim has finished: its first and its latest trim.
MemoOf(st, res) ==
    [ set |-> TRUE,
      first |-> IF memo.set THEN memo.first ELSE TrimRecord(st, res),
      last |-> TrimRecord(st, res) ]

\* Lines 916-942 of handleTrim and, when the range is accepted and the
\* buffer built, the call of audioBufferToWav(newBuffer) of line 944.
\* A rejected range ends the handler with the error status; an exception
\* ends it with the status set at line 918.
HandleTrim ==
    /\ tpc = "idle"
    /\ pc = "idle"
    /\ UNCHANGED << file, loads >>
    /\ UNCHANGED convVars
    /\ IF audioBuffer = NoBuffer
       THEN UNCHANGED vars
       ELSE \E r \in { Extract(LiveHeap, audioBuffer, startTime, endTime) } :
              /\ heap' = r.heap
              /\ startSample' = r.startSample
              /\ endSample' = r.endSample
              /\ newBuffer' = r.buffer
              /\ UNCHANGED << audioBuffer, startTime, endTime >>
              /\ output' = IF r.kind = "rejected" THEN RejectedOutput ELSE output
              /\ IF r.kind = "ok"
                 THEN /\ status' = "Trimming..."
                      /\ tpc' = "encoding"
                      /\ buffer' = Contents(r.heap, r.buffer)
                      /\ pc' = "start"
                      /\ numOfChan' = 0
                      /\ len' = 0
                      /\ view' = << >>
                      /\ channels' = << >>
                      /\ i' = 0
                      /\ sample' = 0
                      /\ pos' = 0
                      /\ UNCHANGED << offset, memo >>
                 ELSE /\ status' = IF r.kind = "rejected" THEN StatusRangeError
                                   ELSE "Trimming..."
                      /\ tpc' = "idle"
                      /\ memo' = MemoOf(IF r.kind = "rejected"
                                        THEN StatusRangeError
                                        ELSE "Trimming...", << >>)
                      /\ UNCHANGED encVars

\* Lines 945-947, once audioBufferToWav has returned: the bytes become
\* the output.  An exception of the encoder ends the handler instead.
TrimFinish ==
    /\ tpc = "encoding"
    /\ pc \in { "done", "threw" }
    /\ IF pc = "done"
       THEN /\ output' = view
            /\ status' = "Trimming complete."
            /\ memo' = MemoOf("Trimming complete.", view)
       ELSE /\ memo' = MemoOf("Trimming...", << >>)
            /\ UNCHANGED << output, status >>
    /\ tpc' = "idle"
    /\ pc' = "idle"
    /\ newBuffer' = NoBuffer
    /\ heap' = LiveHeap
    /\ UNCHANGED << audioBuffer, startTime, endTime, startSample, endSample >>
    /\ UNCHANGED << buffer, numOfChan, len, view, channels, i, sample, offset, pos >>
    /\ UNCHANGED << file, loads >>
    /\ UNCHANGED convVars

\* The trimmer with a file loaded and the Start and End fields as the
\* user left them, before Trim is clicked.
TrimLoaded(shape) ==
    /\ file = [ name |-> "loaded", decodes |-> TRUE, shape |-> shape ]
    /\ loads = {}
    /\ ConverterUnused
    /\ heap = DecodedChannels(shape)
    /\ audioBuffer = DecodedBuffer(shape)
    /\ output = << >>
    /\ status = "Audio loaded."
    /\ startSample = NaNNum
    /\ endSample = NaNNum
    /\ newBuffer = NoBuffer
    /\ tpc = "idle"
    /\ memo = NoMemo
    /\ buffer = NoBuffer
    /\ pc = "idle"
    /\ numOfChan = 0
    /\ len = 0
    /\ view = << >>
    /\ channels = << >>
    /\ i = 0
    /\ sample = 0
    /\ offset = 0
    /\ pos = 0

InitTrim ==
    /\ \E shape \in TrimShapes : TrimLoaded(shape)
    /\ startTime \in TrimTimes
    /\ endTime \in TrimTimes

NextTrim ==
    \/ HandleTrim
    \/ EncDeclare
    \/ EncHeader
    \/ EncChannels
    \/ EncWhile
    \/ EncFor
    \/ TrimFinish

TrimSpec == InitTrim /\ [][NextTrim]_vars

\* The values the user moves the Start and End fields between while the
\* same file stays loaded: 0, 0.0001, 0.0003.
HistTimes == { Zero, DblOfRatio(1, 10000), DblOfRatio(3, 10000) }

\* Line 958: onChange of the Start field.  handleTrim is synchronous, so
\* an edit comes between two trims, never inside one.
SetStartTime ==
    /\ tpc = "idle"
    /\ \E t \in HistTimes : startTime' = t
    /\ UNCHANGED << heap, audioBuffer, endTime, output, status, startSample,
                    endSample, newBuffer, tpc, file, loads, memo >>
    /\ UNCHANGED encVars
    /\ UNCHANGED convVars

\* Line 959: onChange of the End field.
SetEndTime ==
    /\ tpc = "idle"
    /\ \E t \in HistTimes : endTime' = t
    /\ UNCHANGED << heap, audioBuffer, startTime, output, status, startSample,
                    endSample, newBuffer, tpc, file, loads, memo >>
    /\ UNCHANGED encVars
    /\ UNCHANGED convVars

InitHist ==
    /\ \E shape \in TrimShapes : TrimLoaded(shape)
    /\ startTime \in HistTimes
    /\ endTime \in HistTimes

NextHist ==
    \/ SetStartTime
    \/ SetEndTime
    \/ HandleTrim
    \/ EncDeclare
    \/ EncHeader
    \/ EncChannels
    \/ EncWhile
    \/ EncFor
    \/ TrimFinish

HistSpec == InitHist /\ [][NextHist]_vars

\* ------------------------------------------- AudioTrimmer, loading files
\* The files the user picks in the trimmer: two that decode and one that
\* decodeAudioData rejects.
TrimFiles ==
    { [ name |-> "a", decodes |-> TRUE, shape |-> <<44100, 15, 1>> ],
      [ name |-> "b", decodes |-> TRUE, shape |-> <<8000, 3, 2>> ],
      [ name |-> "bad", decodes |-> FALSE, shape |-> <<0, 0, 0>> ] }

\* audioBufferToWav is not running.
EncoderIdle ==
    /\ buffer = NoBuffer
    /\ pc = "idle"
    /\ numOfChan = 0
    /\ len = 0
    /\ view = << >>
    /\ channels = << >>
    /\ i = 0
    /\ sample = 0
    /\ offset = 0
    /\ pos = 0

\* Line 952, onChange of the file input: setFile; and, for a file, the
\* effect of lines 894-899 up to its first await: the status, and
\* audioBuffer and output set to null.  Without a file the effect
\* returns at line 895.
SelectFile ==
    /\ tpc = "idle"
    /\ pc = "idle"
    /\ \E f \in TrimFiles \cup { NoFile } :
          /\ file' = f
          /\ IF f = NoFile
             THEN UNCHANGED << heap, audioBuffer, output, status, loads >>
             ELSE /\ Cardinality(loads) < MaxPending
                  /\ status' = "Loading audio..."
                  /\ audioBuffer' = NoBuffer
                  /\ heap' = << >>
                  /\ output' = << >>
                  /\ loads' = loads \cup { [ file |-> f, stage |-> "reading" ] }
    /\ UNCHANGED << startTime, endTime, startSample, endSample, newBuffer,
                    tpc, memo >>
    /\ UNCHANGED encVars
    /\ UNCHANGED convVars

\* Line 902: await file.arrayBuffer() of one of the waiting calls
\* resolves and decodeAudioData is called.
LoadRead ==
    /\ tpc = "idle"
    /\ pc = "idle"
    /\ \E l \in loads :
          /\ l.stage = "reading"
          /\ loads' = (loads \ {l}) \cup { [ l EXCEPT !.stage = "decoding" ] }
    /\ UNCHANGED << heap, audioBuffer, startTime, endTime, output, status,
                    startSample, endSample, newBuffer, tpc, file, memo >>
    /\ UNCHANGED encVars
    /\ UNCHANGED convVars

\* Lines 903-911: decodeAudioData of one of the waiting calls settles.
\* Resolved: lines 904-907; rejected: the catch of lines 908-910.
LoadFinish ==
    /\ tpc = "idle"
    /\ pc = "idle"
    /\ \E l \in loads :
          /\ l.stage = "decoding"
          /\ loads' = loads \ {l}
          /\ IF l.file.decodes
             THEN /\ audioBuffer' = DecodedBuffer(l.file.shape)
                  /\ heap' = DecodedChannels(l.file.shape)
                  /\ startTime' = Zero
                  /\ endTime' = Duration(DecodedBuffer(l.file.shape))
                  /\ status' = "Audio loaded."
             ELSE /\ status' = "Error: Could not decode audio file."
                  /\ UNCHANGED << heap, audioBuffer, startTime, endTime >>
    /\ UNCHANGED << output, startSample, endSample, newBuffer, tpc, file, memo >>
    /\ UNCHANGED encVars
    /\ UNCHANGED convVars

\* The trimmer as mounted: nothing selected.
InitLoad ==
    /\ TrimmerUnused
    /\ ConverterUnused
    /\ EncoderIdle

NextLoad ==
    \/ SelectFile
    \/ LoadRead
    \/ LoadFinish
    \/ HandleTrim
    \/ EncDeclare
    \/ EncHeader
    \/ EncChannels
    \/ EncWhile
    \/ EncFor
    \/ TrimFinish

LoadSpec == InitLoad /\ [][NextLoad]_vars

\* ------------------------------------------------------- AudioConverter
\* The files the user picks in the converter.
ConvFiles ==
    { [ name |-> "x", decodes |-> TRUE, shape |-> <<8000, 1, 1>> ],
      [ name |-> "y", decodes |-> TRUE, shape |-> <<8000, 1, 2>> ],
      [ name |-> "bad", decodes |-> FALSE, shape |-> <<0, 0, 0>> ] }

\* The AudioBuffer decodeAudioData resolves with for file f, as the
\* encoder reads it.
DecodedAudio(f) == Contents(DecodedChannels(f.shape), DecodedBuffer(f.shape))

\* Lines 842-845, handleFileChange: setFile and setOutput(null).
ConvSelectFile ==
    /\ pc = "idle"
    /\ cfile' \in ConvFiles \cup { NoFile }
    /\ coutput' = << >>
    /\ UNCHANGED << cstatus, convs >>
    /\ UNCHANGED encVars
    /\ UNCHANGED trimVars

\* Lines 847-851, handleConvert up to its first await.
HandleConvert ==
    /\ pc = "idle"
    /\ IF cfile = NoFile
       THEN UNCHANGED << cstatus, convs >>
       ELSE /\ Cardinality(convs) < MaxPending
            /\ cstatus' = "Processing..."
            /\ convs' = convs \cup { [ file |-> cfile, stage |-> "reading" ] }
    /\ UNCHANGED << cfile, coutput >>
    /\ UNCHANGED encVars
    /\ UNCHANGED trimVars

\* Line 851: await file.arrayBuffer() of one of the waiting calls
\* resolves and decodeAudioData is called.
ConvRead ==
    /\ pc = "idle"
    /\ \E l \in convs :
          /\ l.stage = "reading"
          /\ convs' = (convs \ {l}) \cup { [ l EXCEPT !.stage = "decoding" ] }
    /\ UNCHANGED << cfile, coutput, cstatus >>
    /\ UNCHANGED encVars
    /\ UNCHANGED trimVars

\* Lines 852-854: decodeAudioData of one of the waiting calls settles.
\* Resolved: audioBufferToWav(audioBuffer) is called; rejected: the catch
\* of lines 860-863.
ConvDecoded ==
    /\ pc = "idle"
    /\ \E l \in convs :
          /\ l.stage = "decoding"
          /\ IF l.file.decodes
             THEN /\ convs' = (convs \ {l}) \cup { [ l EXCEPT !.stage = "encoding" ] }
                  /\ buffer' = DecodedAudio(l.file)
                  /\ pc' = "start"
                  /\ numOfChan' = 0
                  /\ len' = 0
                  /\ view' = << >>
                  /\ channels' = << >>
                  /\ i' = 0
                  /\ sample' = 0
                  /\ pos' = 0
                  /\ UNCHANGED << cstatus, offset >>
             ELSE /\ convs' = convs \ {l}
                  /\ cstatus' = "Error: Could not process audio file. It might be in an unsupported format."
                  /\ UNCHANGED encVars
    /\ UNCHANGED << cfile, coutput >>
    /\ UNCHANGED trimVars

\* Lines 855-863, once audioBufferToWav has returned: setOutput and the
\* status; an exception of the encoder goes to the catch.
ConvFinish ==
    /\ pc \in { "done", "threw" }
    /\ \E l \in convs :
          /\ l.stage = "encoding"
          /\ convs' = convs \ {l}
    /\ IF pc = "done"
       THEN /\ coutput' = view
            /\ cstatus' = "Conversion to WAV complete!"
       ELSE /\ cstatus' = "Error: Could not process audio file. It might be in an unsupported format."
            /\ UNCHANGED coutput
    /\ pc' = "idle"
    /\ UNCHANGED cfile
    /\ UNCHANGED << buffer, numOfChan, len, view, channels, i, sample, offset, pos >>
    /\ UNCHANGED trimVars

InitConv ==
    /\ TrimmerUnused
    /\ ConverterUnused
    /\ EncoderIdle

NextConv ==
    \/ ConvSelectFile
    \/ HandleConvert
    \/ ConvRead
    \/ ConvDecoded
    \/ EncDeclare
    \/ EncHeader
    \/ EncChannels
    \/ EncWhile
    \/ EncFor
    \/ ConvFinish

ConvSpec == InitConv /\ [][NextConv]_vars

\* ------------------------------------------------ reading a WAVE file
\* What a reader of the byte sequence sees (offsets are 0-based).
U16LE(bytes, off) == bytes[off + 1] + 256 * bytes[off + 2]

U32LE(bytes, off) ==
    bytes[off + 1] + 256 * bytes[off + 2] + 65536 * bytes[off + 3]
        + 16777216 * bytes[off + 4]

I16LE(bytes, off) ==
    IF U16LE(bytes, off) >= 32768 THEN U16LE(bytes, off) - 65536
    ELSE U16LE(bytes, off)

Slice(bytes, off, n) == [ k \in 1..n |-> bytes[off + k] ]

\* The ids of the chunks of a RIFF file, walking from byte offset `off`:
\* 4 bytes of id, 4 bytes of size, `size` bytes of payload.
RECURSIVE ChunkIds(_, _)
ChunkIds(bytes, off) ==
    IF off + 8 > Len(bytes) THEN << >>
    ELSE << Slice(bytes, off, 4) >>
             \o ChunkIds(bytes, off + 8 + U32LE(bytes, off + 4))

ASCII_RIFF == << 82, 73, 70, 70 >>
ASCII_WAVE == << 87, 65, 86, 69 >>
ASCII_fmt == << 102, 109, 116, 32 >>
ASCII_data == << 100, 97, 116, 97 >>

\* The input of the call, in the words of the data model.
frameCount == buffer.length
channelCount == buffer.numberOfChannels
sampleRate == buffer.sampleRate

\* ---------------------------------------------------------------- claims

\* C1: the byte sequence encode allocates and returns has length exactly
\* 44 + frameCount * channelCount * 2 (44 bytes when frameCount = 0).
C1_TotalLength ==
    pc # "start" =>
        /\ Len(view) = 44 + frameCount * channelCount * 2
        /\ (frameCount = 0 => Len(view) = 44)

C1_Witness ==
    /\ pc = "done"
    /\ channelCount = 2
    /\ frameCount = 2
    /\ Len(view) = 52

\* C2: the returned header carries "RIFF" at 0, "WAVE" at 8, "fmt " at 12,
\* Subchunk1Size 16 at 16, AudioFormat 1 at 20, BitsPerSample 16 at 34 and
\* "data" at 36, all little-endian; the data start at byte 44 and the file
\* holds exactly one fmt chunk followed by exactly one data chunk.
C2_FixedHeader ==
    pc = "done" =>
        /\ Slice(view, 0, 4) = ASCII_RIFF
        /\ Slice(view, 8, 4) = ASCII_WAVE
        /\ Slice(view, 12, 4) = ASCII_fmt
        /\ U32LE(view, 16) = 16
        /\ U16LE(view, 20) = 1
        /\ U16LE(view, 34) = 16
        /\ Slice(view, 36, 4) = ASCII_data
        /\ ChunkIds(view, 12) = << ASCII_fmt, ASCII_data >>

C2_Witness ==
    /\ pc = "done"
    /\ frameCount > 0
    /\ Slice(view, 0, 4) = ASCII_RIFF
    /\ ChunkIds(view, 12) = << ASCII_fmt, ASCII_data >>

\* C3: in the returned file ChunkSize (offset 4) is the total length - 8
\* and Subchunk2Size (offset 40) is frameCount * channelCount * 2, which
\* is the total length - 44.
C3_SizeFields ==
    pc = "done" =>
        /\ U32LE(view, 4) = Len(view) - 8
        /\ U32LE(view, 40) = frameCount * channelCount * 2
        /\ U32LE(view, 40) = Len(view) - 44

C3_Witness ==
    /\ pc = "done"
    /\ frameCount = 3
    /\ U32LE(view, 4) = 42
    /\ U32LE(view, 40) = 6

\* C4: in the returned file NumChannels (offset 22) = channelCount,
\* SampleRate (offset 24) = sampleRate, ByteRate (offset 28) =
\* sampleRate * channelCount * 2 and BlockAlign (offset 32) =
\* channelCount * 2.
C4_FormatFields ==
    pc = "done" =>
        /\ U16LE(view, 22) = channelCount
        /\ U32LE(view, 24) = sampleRate
        /\ U32LE(view, 28) = sampleRate * channelCount * 2
        /\ U16LE(view, 32) = channelCount * 2

C4_Witness ==
    /\ pc = "done"
    /\ channelCount = 2
    /\ sampleRate = 44100
    /\ U32LE(view, 28) = 176400
    /\ U16LE(view, 32) = 4

\* C5: the data section is interleaved frame-major: for every frame f and
\* channel c the signed 16-bit little-endian value at byte offset
\* 44 + 2 * (f * channelCount + c) is the quantization of channels[c][f].
C5_Interleaved ==
    pc = "done" =>
        \A f \in 0..(frameCount - 1) : \A c \in 0..(channelCount - 1) :
            I16LE(view, 44 + 2 * (f * channelCount + c))
                = ScaleSample(ClampSample(buffer.channelData[c + 1][f + 1]))

\* The stereo scenario: channel 0 = [0.0, 0.5], channel 1 = [-0.5, 1.0];
\* the data hold frame0-ch0, frame0-ch1, frame1-ch0, frame1-ch1.
C5_Witness ==
    /\ pc = "done"
    /\ buffer.channelData = << << <<0, 1>>, <<1, 2>> >>,
                               << <<-1, 2>>, <<1, 1>> >> >>
    /\ I16LE(view, 44) = 0
    /\ I16LE(view, 46) < 0
    /\ I16LE(view, 48) = 16383
    /\ I16LE(view, 50) = 32767

\* ------------------------------------------------- quantization claims
\* Clamping to [-1.0, 1.0] as the data model words it.
Clamped(s) ==
    IF s[1] > s[2] THEN <<1, 1>>
    ELSE IF s[1] < -s[2] THEN <<-1, 1>>
    ELSE s

\* The cells of the input: <<c, f>>, channel c and frame f, 0-based.
Cells == (0..(channelCount - 1)) \X (0..(frameCount - 1))

InputSample(cell) == buffer.channelData[cell[1] + 1][cell[2] + 1]

\* The 16-bit value the returned file holds for a cell.
Encoded(cell) == I16LE(view, 44 + 2 * (cell[2] * channelCount + cell[1]))

\* C6: every sample that is negative after clamping is encoded as
\* truncate(s * 32768), truncation toward zero; -0.5 encodes to -16384.
C6_NegativeScale ==
    pc = "done" =>
        \A cell \in Cells :
            LET s == Clamped(InputSample(cell))
            IN  s[1] < 0 => Encoded(cell) = TruncDiv(s[1] * 32768, s[2])

\* C7: every sample that is non-negative after clamping is encoded as
\* truncate(s * 32767), truncation toward zero (16383.5 gives 16383).
C7_NonNegativeScale ==
    pc = "done" =>
        \A cell \in Cells :
            LET s == Clamped(InputSample(cell))
            IN  s[1] >= 0 => Encoded(cell) = TruncDiv(s[1] * 32767, s[2])

C7_Witness ==
    /\ pc = "done"
    /\ \E cell \in Cells :
          /\ InputSample(cell) = <<1, 2>>
          /\ Encoded(cell) = 16383

\* C8: 1.0 encodes to 32767 and -1.0 to -32768; a sample above 1.0 encodes
\* as 1.0 does and a sample below -1.0 as -1.0 does; the integer handed to
\* setInt16 is always within the signed 16-bit range, so nothing wraps.
C8_Extremes ==
    /\ sample \in -32768..32767
    /\ pc = "done" =>
          \A cell \in Cells :
              /\ InputSample(cell)[1] >= InputSample(cell)[2]
                    => Encoded(cell) = 32767
              /\ InputSample(cell)[1] <= -InputSample(cell)[2]
                    => Encoded(cell) = -32768

C8_Witness ==
    /\ pc = "done"
    /\ buffer.channelData = << << <<3, 2>>, <<-3, 2>> >>,
                               << <<1, 1>>, <<-1, 1>> >> >>
    /\ Encoded(<<0, 0>>) = 32767
    /\ Encoded(<<1, 0>>) = 32767
    /\ Encoded(<<0, 1>>) = -32768
    /\ Encoded(<<1, 1>>) = -32768

\* --------------------------------------------------------- round trip
\* Offset of the payload of the first chunk with the given id, walking
\* the chunks from `off`; -1 when there is none.
RECURSIVE FindChunk(_, _, _)
FindChunk(bytes, off, id) ==
    IF off + 8 > Len(bytes) THEN -1
    ELSE IF Slice(bytes, off, 4) = id THEN off + 8
    ELSE FindChunk(bytes, off + 8 + U32LE(bytes, off + 4), id)

\* A 16-bit PCM WAVE reader: the format from the fmt chunk, the frames
\* from the data chunk, samples as signed 16-bit integers.
WavRead(bytes) ==
    LET fmtAt == FindChunk(bytes, 12, ASCII_fmt)
        dataAt == FindChunk(bytes, 12, ASCII_data)
        nch == U16LE(bytes, fmtAt + 2)
        align == U16LE(bytes, fmtAt + 12)
        width == U16LE(bytes, fmtAt + 14) \div 8
        nframes == U32LE(bytes, dataAt - 4) \div align
    IN  [ audioFormat |-> U16LE(bytes, fmtAt),
          numChannels |-> nch,
          sampleRate |-> U32LE(bytes, fmtAt + 4),
          frames |-> nframes,
          samples |-> [ c \in 1..nch |-> [ f \in 1..nframes |->
                          I16LE(bytes, dataAt + (f - 1) * align + (c - 1) * width) ] ] ]

Abs(x) == IF x >= 0 THEN x ELSE -x

\* C9: reading the returned file back gives the sampleRate, channelCount
\* and frameCount of the input exactly, and for every sample s of the
\* input with -1 <= s <= 1 the 16-bit value q read back satisfies
\* |q / 32767 - s| <= 1 / 32767 (full scale taken as 32767 steps).
C9_RoundTrip ==
    pc = "done" =>
        LET w == WavRead(view)
        IN  /\ w.audioFormat = 1
            /\ w.sampleRate = sampleRate
            /\ w.numChannels = channelCount
            /\ w.frames = frameCount
            /\ \A cell \in Cells :
                  LET s == InputSample(cell)
                      q == w.samples[cell[1] + 1][cell[2] + 1]
                  IN  Clamped(s) = s
                        => Abs(q * s[2] - s[1] * 32767) <= s[2]

C9_Witness ==
    /\ pc = "done"
    /\ WavRead(view).frames = 2
    /\ WavRead(view).numChannels = 2
    /\ buffer.channelData[1] = << <<-1, 1>>, <<1, 2>> >>
    /\ WavRead(view).samples[1] = << -32768, 16383 >>

\* C10: under the run-to-completion scheduling of synchronous code, every
\* call of the encoder on a valid buffer reaches its return statement;
\* it never stops in a raised RangeError.
C10_Total == <>(pc = "done")

C10_Witness ==
    /\ pc = "done"
    /\ frameCount >= 2
    /\ offset = frameCount
    /\ pos = Len(view)


\* ------------------------------------------------- AudioTrimmer, claims
\* handleTrim has been called and has got past line 918, and has not yet
\* returned normally or with the range error.
TrimRunning == status = "Trimming..."

\* C11: whenever the end, clamped to the duration, is not after the start,
\* clamped to 0, the trim ends with the message "Error: End time must be
\* after start time." and neither a buffer nor an output is produced:
\* equal bounds, inverted bounds, a start at or beyond the duration, an
\* end at or below 0.
C11_Rejection ==
    ( /\ status # "Audio loaded."
      /\ DblLe(MathMin(endTime, DblOfRatio(audioBuffer.length, audioBuffer.sampleRate)),
               MathMax(Zero, startTime)) )
    => ( /\ status = "Error: End time must be after start time."
         /\ tpc = "idle"
         /\ newBuffer = NoBuffer
         /\ output = << >> )

\* Equal bounds strictly inside the buffer have been rejected.
C11_Witness ==
    /\ status = "Error: End time must be after start time."
    /\ DblEq(startTime, endTime)
    /\ DblLt(Zero, startTime)
    /\ DblLt(endTime, Duration(audioBuffer))

\* C12: the bounds are clamped independently: a trim with a start at or
\* below 0 and an end at or beyond the duration has the outcome of the
\* trim with the bounds 0 and duration: the same indices, the same new
\* buffer with the same samples, the same rejection or exception.
C12_Clamping ==
    ( /\ status # "Audio loaded."
      /\ pc \in { "start", "idle" }
      /\ DblLe(startTime, Zero)
      /\ DblLe(Duration(audioBuffer), endTime) )
    => \E r \in { Extract(LiveHeap, audioBuffer, Zero, Duration(audioBuffer)) } :
          /\ startSample = r.startSample
          /\ endSample = r.endSample
          /\ (tpc = "encoding") => (r.kind = "ok" /\ newBuffer = r.buffer /\ heap = r.heap)
          /\ (tpc = "idle" /\ TrimRunning) => r.kind = "threw"
          /\ (status = StatusRangeError) <=> (r.kind = "rejected")
          /\ (status = "Trimming complete.") => r.kind = "ok"

\* A trim from before 0 to after the duration has built its buffer.
C12_Witness ==
    /\ tpc = "encoding"
    /\ DblLt(startTime, Zero)
    /\ DblLt(Duration(audioBuffer), endTime)
    /\ newBuffer.length > 0

\* C13: for every accepted range the trim builds a buffer whose length is
\* floor(end * sampleRate) - floor(start * sampleRate), with the sample
\* rate and channel count of the input, every channel of that length and
\* holding the input channel from startSample on.
C13_Slice ==
    LET start == MathMax(Zero, startTime)
        end == MathMin(endTime, DblOfRatio(audioBuffer.length, audioBuffer.sampleRate))
        from == MathFloor(DblTimesInt(start, audioBuffer.sampleRate))
        to == MathFloor(DblTimesInt(end, audioBuffer.sampleRate))
    IN  (TrimRunning /\ DblLt(start, end))
        => ( /\ tpc = "encoding"
             /\ newBuffer.length = to.val - from.val
             /\ newBuffer.sampleRate = audioBuffer.sampleRate
             /\ newBuffer.numberOfChannels = audioBuffer.numberOfChannels
             /\ Len(newBuffer.channelData) = audioBuffer.numberOfChannels
             /\ \A c \in 1..audioBuffer.numberOfChannels :
                   /\ Len(heap[newBuffer.channelData[c]]) = to.val - from.val
                   /\ \A k \in 1..(to.val - from.val) :
                         heap[newBuffer.channelData[c]][k]
                             = heap[audioBuffer.channelData[c]][from.val + k] )

\* C14: a trim of a non-empty buffer from 0 to its duration builds a
\* buffer with the length, sample rate, channel count and samples of the
\* input.
C14_Identity ==
    ( /\ TrimRunning
      /\ audioBuffer.length > 0
      /\ startTime = Zero
      /\ endTime = DblOfRatio(audioBuffer.length, audioBuffer.sampleRate) )
    => ( /\ tpc = "encoding"
         /\ Contents(heap, newBuffer) = Contents(heap, audioBuffer) )

\* C15: for bounds 0 <= a < b <= duration, aligned to the sample period
\* or not, the buffer the trim of [a, b) has built can be trimmed again
\* with the bounds 0 and b - a, and that second extraction succeeds and
\* yields the length and samples of the first.
C15_Composition ==
    ( /\ tpc = "encoding"
      /\ pc = "start"
      /\ DblLe(Zero, startTime)
      /\ DblLt(startTime, endTime)
      /\ DblLe(endTime, Duration(audioBuffer)) )
    => \E r \in { Extract(heap, newBuffer, Zero, DblMinus(endTime, startTime)) } :
          /\ r.kind = "ok"
          /\ Contents(r.heap, r.buffer) = Contents(heap, newBuffer)

\* The decoded file the loaded buffer came from.
LoadedShape ==
    << audioBuffer.sampleRate, audioBuffer.length, audioBuffer.numberOfChannels >>

\* The storage ids of a buffer's channels.
StorageIds(ab) == { ab.channelData[c] : c \in 1..Len(ab.channelData) }

\* C16: a trim copies and does not mutate its input: at every moment the
\* loaded buffer has the length, sample rate, channel count and samples
\* it was decoded with, the new buffer shares no storage with it, and a
\* write of any sample of the one leaves the samples of the other as they
\* are.
C16_DeepCopy ==
    /\ audioBuffer = DecodedBuffer(LoadedShape)
    /\ Contents(heap, audioBuffer).channelData = DecodedChannels(LoadedShape)
    /\ (newBuffer # NoBuffer) =>
          /\ StorageIds(newBuffer) \cap StorageIds(audioBuffer) = {}
          /\ \A id \in StorageIds(newBuffer) : \A k \in 1..Len(heap[id]) :
                Contents([ heap EXCEPT ![id][k] = <<1, 1>> ], audioBuffer)
                    = Contents(heap, audioBuffer)
          /\ \A id \in StorageIds(audioBuffer) : \A k \in 1..Len(heap[id]) :
                Contents([ heap EXCEPT ![id][k] = <<1, 1>> ], newBuffer)
                    = Contents(heap, newBuffer)

\* A trim of part of a stereo file has built its buffer, and one before
\* it has delivered its output.
C16_Witness ==
    /\ tpc = "encoding"
    /\ output # << >>
    /\ newBuffer.numberOfChannels = 2
    /\ newBuffer.length > 0
    /\ newBuffer.length < audioBuffer.length

\* C17: whenever a trim gets as far as computing the sample indices from
\* numeric bounds, 0 <= startSample <= endSample <= length of the loaded
\* buffer; the slice is taken only with such indices.
C17_Indices ==
    /\ (status \in { "Trimming...", "Trimming complete." }
          /\ ~startSample.nan /\ ~endSample.nan)
        => ( /\ 0 <= startSample.val
             /\ startSample.val <= endSample.val
             /\ endSample.val <= audioBuffer.length )
    /\ (tpc = "encoding") => (~startSample.nan /\ ~endSample.nan)

\* A trim reaching to the end of the file from a frame inside it has
\* taken its slice.
C17_Witness ==
    /\ tpc = "encoding"
    /\ startSample.val > 0
    /\ endSample.val = audioBuffer.length

\* C18: a trim of the same buffer with the same bounds as the first trim
\* ends as the first did, with the same error or with the same bytes,
\* whatever trims, successful, rejected or failed, were made in between.
C18_Deterministic ==
    ( /\ memo.set
      /\ memo.last.source = memo.first.source
      /\ memo.last.startTime = memo.first.startTime
      /\ memo.last.endTime = memo.first.endTime )
    => ( /\ memo.last.status = memo.first.status
         /\ memo.last.result = memo.first.result )

\* The bounds of the first trim, which succeeded, are trimmed again after
\* a rejected trim with other bounds, and the encoder has returned the
\* bytes of the first trim.
C18_Witness ==
    /\ memo.set
    /\ memo.first.status = "Trimming complete."
    /\ memo.last.status = StatusRangeError
    /\ tpc = "encoding"
    /\ pc = "done"
    /\ startTime = memo.first.startTime
    /\ endTime = memo.first.endTime
    /\ view = memo.first.result

\* The data-model invariants of a buffer: a positive sample rate and
\* every channel of the length the buffer states.
ValidBuffer(b) ==
    /\ b.sampleRate > 0
    /\ b.numberOfChannels > 0
    /\ Len(b.channelData) = b.numberOfChannels
    /\ \A c \in 1..Len(b.channelData) : Len(b.channelData[c]) = b.length

WavAlone(b) ==
    LET n == WavLen(b.length, b.numberOfChannels)
        hdr == WriteHeader([ k \in 1..n |-> 0 ], 0, b.numberOfChannels,
                           b.sampleRate, n)
    IN  [ k \in 1..n |->
            IF k <= 44 THEN hdr.view[k]
            ELSE LEBytes(ScaleSample(ClampSample(
                     ReadSample(b.channelData,
                                ((k - 45) \div 2) % b.numberOfChannels,
                                ((k - 45) \div 2) \div b.numberOfChannels))),
                         2)[((k - 45) % 2) + 1] ]

\* The outcome of a trim of the decoded file `source` with the bounds st
\* and en when no other trim has run on it.
TrimAlone(source, st, en) ==
    LET r == Extract(source.channelData,
                     [ numberOfChannels |-> source.numberOfChannels,
                       length |-> source.length,
                       sampleRate |-> source.sampleRate,
                       channelData |-> [ c \in 1..source.numberOfChannels |-> c ] ],
                     st, en)
    IN  IF r.kind = "rejected"
        THEN [ status |-> StatusRangeError, result |-> << >> ]
        ELSE IF r.kind = "threw"
        THEN [ status |-> "Trimming...", result |-> << >> ]
        ELSE [ status |-> "Trimming complete.",
               result |-> WavAlone(Contents(r.heap, r.buffer)) ]

\* C20: trims of the same loaded buffer do not interfere.  Handlers run
\* to completion, so the invocations interleave as wholes, in any order
\* and with any bounds; each of them ends with the error or the bytes it
\* would end with if it were the only one ever run on the decoded file.
C20_Isolation ==
    ( /\ memo.set
      /\ tpc = "idle"
      /\ startTime = memo.last.startTime
      /\ endTime = memo.last.endTime )
    => \E alone \in { TrimAlone([ numberOfChannels |-> LoadedShape[3],
                                   length |-> LoadedShape[2],
                                   sampleRate |-> LoadedShape[1],
                                   channelData |-> DecodedChannels(LoadedShape) ],
                                 memo.last.startTime, memo.last.endTime) } :
          /\ memo.last.status = alone.status
          /\ memo.last.result = alone.result

\* A trim from inside the file has delivered its bytes after an earlier
\* trim with other bounds delivered other bytes.
C20_Witness ==
    /\ memo.set
    /\ tpc = "idle"
    /\ memo.first.status = "Trimming complete."
    /\ memo.last.status = "Trimming complete."
    /\ memo.last.result # memo.first.result
    /\ startSample.val > 0
    /\ output = memo.last.result

\* The bounds in the Start and End fields are such that a trim of the
\* loaded buffer is rejected.
BoundsRejected ==
    /\ audioBuffer # NoBuffer
    /\ DblLe(MathMin(endTime, DblOfRatio(audioBuffer.length, audioBuffer.sampleRate)),
             MathMax(Zero, startTime))

\* C21: the encoder is entered only from a trim, and then its argument
\* holds, for every channel, the whole slice of the loaded buffer; and a
\* trim with rejected bounds creates no buffer, does not enter the
\* encoder and leaves the published output as it was.
C21_FailFast ==
    /\ [](pc # "idle" => tpc = "encoding")
    /\ []((tpc = "encoding" /\ pc = "start") =>
            ( /\ buffer.numberOfChannels = audioBuffer.numberOfChannels
              /\ buffer.length = endSample.val - startSample.val
              /\ Len(buffer.channelData) = audioBuffer.numberOfChannels
              /\ \A c \in 1..audioBuffer.numberOfChannels :
                    /\ Len(buffer.channelData[c]) = endSample.val - startSample.val
                    /\ \A k \in 1..(endSample.val - startSample.val) :
                          buffer.channelData[c][k]
                              = heap[audioBuffer.channelData[c]][startSample.val + k] ))
    /\ [][ ( /\ tpc = "idle"
             /\ BoundsRejected
             /\ startTime' = startTime
             /\ endTime' = endTime )
           => ( /\ newBuffer' = NoBuffer
                /\ tpc' = "idle"
                /\ pc' = "idle"
                /\ output' = output ) ]_vars

\* A trim has been rejected while the output of an earlier trim is
\* published: no buffer exists and the encoder is not running.
C21_Witness ==
    /\ status = StatusRangeError
    /\ tpc = "idle"
    /\ pc = "idle"
    /\ newBuffer = NoBuffer
    /\ output # << >>

\* C22: whenever a trim accepts its range (the clamped end is after the
\* clamped start) it builds a buffer of at least one frame, also when
\* both bounds fall into the same sample period.
C22_NonEmpty ==
    ( /\ TrimRunning
      /\ DblLt(MathMax(Zero, startTime),
               MathMin(endTime, DblOfRatio(audioBuffer.length, audioBuffer.sampleRate))) )
    => ( /\ tpc = "encoding"
         /\ newBuffer # NoBuffer
         /\ newBuffer.length >= 1 )

\* C23: when no trim is running, the status is not "Trimming...": a trim
\* has ended either with the range error and no new output or with
\* "Trimming complete." and the output it produced.
C23_Terminal ==
    (tpc = "idle" /\ memo.set)
    => ( /\ status \in { StatusRangeError, "Trimming complete." }
         /\ status = "Trimming complete." => output # << >> )

\* C27: a trim with rejected bounds sets the status to the range error
\* and leaves the loaded buffer with its samples, the Start and End
\* fields and the output of an earlier trim as they were.
C27_RejectionFrame ==
    [][ ( /\ tpc = "idle"
         /\ BoundsRejected
         /\ memo' # memo )
       => ( /\ status' = StatusRangeError
            /\ audioBuffer' = audioBuffer
            /\ Contents(heap', audioBuffer') = Contents(heap, audioBuffer)
            /\ startTime' = startTime
            /\ endTime' = endTime
            /\ output' = output ) ]_vars

\* The first trim succeeded, the latest was rejected, and the bytes of
\* the first are still the output.
C27_Witness ==
    /\ memo.set
    /\ memo.first.status = "Trimming complete."
    /\ memo.last.status = StatusRangeError
    /\ status = StatusRangeError
    /\ tpc = "idle"
    /\ output = memo.first.result
    /\ output # << >>

\* C25: in the write loop every read of a channel uses a frame index
\* offset below the frame count and every write starts at a byte pos
\* with 44 <= pos <= len - 2; pos advances by 2 per sample, frame after
\* frame, so each data byte is written once; the loop makes as many
\* outer passes as there are frames, ends with pos = len and never
\* writes outside the buffer.
C25_LoopBounds ==
    /\ pc # "threw"
    /\ (pc = "for" /\ i < numOfChan) =>
          ( /\ offset < buffer.length
            /\ 44 <= pos
            /\ pos <= len - 2 )
    /\ (pc = "for") => pos = 44 + 2 * (offset * numOfChan + i)
    /\ (pc = "while") => pos = 44 + 2 * offset * numOfChan
    /\ (pc = "done") => (pos = len /\ offset = buffer.length)

\* The loop has gone through a buffer of two channels and two frames.
C25_Witness ==
    /\ pc = "done"
    /\ buffer.numberOfChannels = 2
    /\ buffer.length = 2
    /\ pos = len

\* a <= b for samples whose denominators divide 65536.
SampleLe(a, b) == a[1] * (65536 \div a[2]) <= b[1] * (65536 \div b[2])

\* C26: quantization is monotone: of two samples of a frame the smaller
\* or equal one is encoded as the smaller or equal 16-bit value, also
\* across -0.5 where the factor changes; and 0 is encoded as 0.
C26_Monotone ==
    pc = "done" =>
        \A c1 \in Cells : \A c2 \in Cells :
            /\ SampleLe(InputSample(c1), InputSample(c2)) => Encoded(c1) <= Encoded(c2)
            /\ InputSample(c1) = <<0, 1>> => Encoded(c1) = 0

\* A frame with a sample just below -0.5 and -0.5 itself has been
\* encoded, the two values being neighbours.
C26_Witness ==
    /\ pc = "done"
    /\ buffer.channelData = << << <<-32769, 65536>> >>, << <<-1, 2>> >> >>
    /\ Encoded(<<0, 0>>) < Encoded(<<1, 0>>)

\* C24: once the load of a file that does not decode has ended with
\* "Error: Could not decode audio file.", the trimmer holds no buffer, so
\* that no trim can run, and shows no output.
C24_DecodeFailure ==
    (status = "Error: Could not decode audio file.")
    => ( /\ audioBuffer = NoBuffer
         /\ output = << >>
         /\ tpc = "idle" )

\* C28: after a successful load the range is the whole file and no
\* earlier output is shown; and a trim made with the bounds the load
\* set builds a buffer with all the frames and samples of the file.
C28_LoadResets ==
    /\ (status = "Audio loaded.")
       => ( /\ startTime = Zero
            /\ endTime = DblOfRatio(audioBuffer.length, audioBuffer.sampleRate)
            /\ output = << >> )
    /\ (tpc = "encoding" /\ pc = "start")
       => Contents(heap, newBuffer) = Contents(heap, audioBuffer)

\* C29: when no load is waiting any more, the buffer and the range are
\* those of the file selected last: its decoded buffer if it decodes,
\* none and the decode error if it does not.
C29_LatestFile ==
    (loads = {} /\ file \in TrimFiles)
    => IF file.decodes
       THEN /\ audioBuffer = DecodedBuffer(file.shape)
            /\ Contents(heap, audioBuffer).channelData = DecodedChannels(file.shape)
            /\ status # "Error: Could not decode audio file."
            /\ startTime = Zero
            /\ endTime = DblOfRatio(file.shape[2], file.shape[1])
       ELSE /\ audioBuffer = NoBuffer
            /\ status = "Error: Could not decode audio file."

\* C30: an output the converter shows is the WAV of the file that is
\* selected now.
C30_CurrentFile ==
    (coutput # << >>)
    => ( /\ cfile \in ConvFiles
         /\ cfile.decodes
         /\ coutput = WavAlone(DecodedAudio(cfile)) )

====
